---- MODULE Spec2Model ----
(***************************************************************************)
(* The API gateway of the e-commerce platform: the router of               *)
(* api-gateway/routes/gateway.js (rate limiter, route table, proxies,      *)
(* aggregate handlers) and the AuthMiddleware of api-gateway/middleware/   *)
(* auth.js (extractToken, verifyToken, validateTokenWithUserService,       *)
(* authenticate, optionalAuth, authorize).                                 *)
(*                                                                         *)
(* The product service of product-service/services/productService.js: the *)
(* read functions with their Redis read-through cache, updateStock and     *)
(* addReview with their cache invalidation.                                *)
(*                                                                         *)
(* Spec        the requests of one client key, followed one after another  *)
(*             through the whole router: limiter, route table, auth        *)
(*             middleware, proxies and aggregate handlers. Requests share  *)
(*             no state but the limiter's store.                           *)
(* SpecLive    Spec with the fairness the event loop and the configured    *)
(*             timeouts give.                                              *)
(* SpecLimiter concurrent requests of one client key racing through the    *)
(*             limiter (store.increment, then the comparison with max).    *)
(* SpecCache   product reads and product mutations interleaved at their    *)
(*             awaits, with the cache's clock.                             *)
(* SpecTtl     every read function of the product service and the cache's  *)
(*             clock, on a catalogue that does not change.                 *)
(*                                                                         *)
(* The notification history of notification-service/services/              *)
(* notificationService.js (sendPushNotification, getUserNotifications,     *)
(* markNotificationAsRead) and the AuthContext of the frontend             *)
(* (frontend/src/contexts/AuthContext.js, frontend/src/services/api.js).   *)
(*                                                                         *)
(* SpecPush    concurrent sendPushNotification calls for one user.         *)
(* SpecNotify  sendPushNotification calls and a markNotificationAsRead     *)
(*             call for one user, interleaved at their awaits.             *)
(* SpecAuth    the AuthProvider: its reducer, its token effect, login,     *)
(*             register, logout, updateProfile, the response interceptor   *)
(*             and page loads.                                             *)
(***************************************************************************)
EXTENDS Integers, Sequences, FiniteSets

VARIABLES
    hits,        \* limiter store: requests counted for the client key in the current window
    req,         \* the inbound request followed through the router (Spec)
    clients,     \* concurrent requests inside the limiter (SpecLimiter)
    admitted,    \* requests of the current window the limiter let through (SpecLimiter)
    denied,      \* requests of the current window the limiter answered 429 (SpecLimiter)
    store,       \* product service: the products collection
    redis,       \* product service: the Redis cache, key -> entry
    rd,          \* product service: the read being served
    wr,          \* product service: the mutation being served
    notifications, \* notification service: the Redis list notifications:<userId>, head first
    push,        \* notification service: the sendPushNotification calls being served
    mark,        \* notification service: the markNotificationAsRead call being served
    clock,       \* notification service: Date.now() of the last notification
    sent,        \* notification service: notifications pushed so far
    auth,        \* frontend: the state of the AuthContext reducer
    localStorage, \* frontend: localStorage's 'token'
    calls,       \* frontend: the authAPI calls in flight
    effectDue    \* frontend: the [state.token] effect has to run

cacheVars == <<store, redis, rd, wr>>

notifVars == <<notifications, push, mark, clock, sent>>

frontVars == <<auth, localStorage, calls, effectDue>>

vars == <<hits, req, clients, admitted, denied, cacheVars, notifVars, frontVars>>

-----------------------------------------------------------------------------
(* Bounds of the model *)

MaxOver == 2        \* requests counted beyond max in one window
MaxClients == 2     \* requests concurrently inside the limiter
MaxStock == 1       \* largest stock of a product
Step == 300         \* seconds that pass in one tick of the cache's clock

(* Program constants *)

max == 100          \* rateLimit({ max: 100 })

-----------------------------------------------------------------------------
(* Tokens and headers *)

jwtSecret == "gateway-secret"

\* What a bearer token carries: the key it was signed with, whether its exp
\* has passed, and the role claim of its payload. "garbage" is not a JWT.
TokenTable ==
    [ tAdmin   |-> [jwt |-> TRUE,  key |-> "gateway-secret", expired |-> FALSE, sub |-> "u1", role |-> "ADMIN"],
      tUser    |-> [jwt |-> TRUE,  key |-> "gateway-secret", expired |-> FALSE, sub |-> "u2", role |-> "USER"],
      tExpired |-> [jwt |-> TRUE,  key |-> "gateway-secret", expired |-> TRUE,  sub |-> "u2", role |-> "ADMIN"],
      tForged  |-> [jwt |-> TRUE,  key |-> "other-secret",   expired |-> FALSE, sub |-> "u1", role |-> "ADMIN"],
      garbage  |-> [jwt |-> FALSE, key |-> "",               expired |-> FALSE, sub |-> "",   role |-> ""] ]

Tokens == DOMAIN TokenTable

\* An Authorization header is the sequence of its parts between single spaces
\* (authHeader.split(' ')); <<>> is the absent header.
NoHeader == <<>>

Headers ==
    {NoHeader, <<"Bearer">>, <<"Basic", "tUser">>, <<"Bearer", "tUser", "x">>}
        \cup {<<"Bearer", t>> : t \in Tokens}

\* extractToken: <<>> for null, <<token>> otherwise.
extractTokenLax(authHeader) ==
    IF authHeader = NoHeader THEN <<>>
    ELSE IF Len(authHeader) < 2 THEN <<>>
    ELSE <<authHeader[2]>>

extractToken(authHeader) ==
    IF authHeader = NoHeader THEN <<>>
    ELSE IF Len(authHeader) # 2 \/ authHeader[1] # "Bearer" THEN <<>>
    ELSE <<authHeader[2]>>

\* !token
Falsy(tok) == tok = <<>> \/ tok = <<"">>

\* verifyToken: jwt.verify(token, jwtSecret) or null; <<>> for null,
\* <<payload>> otherwise.
verifyTokenNoExp(token) ==
    IF token \in Tokens /\ TokenTable[token].jwt /\ TokenTable[token].key = jwtSecret
    THEN <<[sub |-> TokenTable[token].sub, role |-> TokenTable[token].role]>>
    ELSE <<>>

verifyToken(token) ==
    IF token \in Tokens /\ TokenTable[token].jwt
       /\ TokenTable[token].key = jwtSecret /\ ~TokenTable[token].expired
    THEN <<[sub |-> TokenTable[token].sub, role |-> TokenTable[token].role]>>
    ELSE <<>>

\* What the identity service does with GET /api/users/validate.
IdResponses == {"valid", "invalid", "unreachable"}

\* validateTokenWithUserService: response.data.valid, false when axios throws.
validateFailOpen(resp) == resp # "invalid"

validateTokenWithUserService(resp) == resp = "valid"

-----------------------------------------------------------------------------
(* The route table of the router, in mount order *)

Methods == {"GET", "POST"}

\* Methods that change state at the backend.
Mutating == {"POST", "PUT", "DELETE"}

\* Paths that are also requested with PUT and DELETE.
MutatedPaths == { <<"api", "products", "7">>, <<"api", "cart">>, <<"api", "orders", "5">> }

\* Request paths, as their segments.
Paths ==
    { <<"health">>,
      <<"api", "users", "register">>, <<"api", "users", "login">>,
      <<"api", "users", "validate">>, <<"api", "users", "profile">>,
      <<"api", "users", "42">>,
      <<"api", "products">>, <<"api", "products", "7">>,
      <<"api", "cart">>, <<"api", "orders">>, <<"api", "orders", "5">>,
      <<"api", "checkout">>, <<"api", "notifications">>,
      <<"api", "admin", "products">>, <<"api", "admin", "orders">>,
      <<"api", "admin", "users">>,
      <<"api", "search">>, <<"api", "dashboard">>,
      <<"api", "auth", "login">>, <<"api", "categories">>,
      <<"api", "nowhere">> }

\* router.get(path, ...) matches GET and the whole path; router.use(path, ...)
\* matches every method and every path under the prefix.
Get(path, chain) == [verb |-> "GET", exact |-> TRUE, path |-> path, chain |-> chain]
Use(path, chain) == [verb |-> "ANY", exact |-> FALSE, path |-> path, chain |-> chain]

Stack ==
    << Get(<<"health">>, <<"health">>),
       Use(<<"api", "users", "register">>, <<"userServiceProxy">>),
       Use(<<"api", "users", "login">>, <<"userServiceProxy">>),
       Use(<<"api", "users", "validate">>, <<"userServiceProxy">>),
       Use(<<"api", "users", "profile">>, <<"authenticate", "userServiceProxy">>),
       Use(<<"api", "users", ":userId">>, <<"authenticate", "userServiceProxy">>),
       Use(<<"api", "products">>, <<"productServiceProxy">>),
       Use(<<"api", "cart">>, <<"optionalAuth", "orderServiceProxy">>),
       Use(<<"api", "orders">>, <<"authenticate", "orderServiceProxy">>),
       Use(<<"api", "checkout">>, <<"authenticate", "orderServiceProxy">>),
       Use(<<"api", "notifications">>, <<"authenticate", "notificationServiceProxy">>),
       Use(<<"api", "admin", "products">>, <<"authenticate", "requireAdmin", "productServiceProxy">>),
       Use(<<"api", "admin", "orders">>, <<"authenticate", "requireAdmin", "orderServiceProxy">>),
       Use(<<"api", "admin", "users">>, <<"authenticate", "requireAdmin", "userServiceProxy">>),
       Get(<<"api", "search">>, <<"optionalAuth", "search">>),
       Get(<<"api", "dashboard">>, <<"authenticate", "dashboard">>),
       Use(<<>>, <<"notFound">>) >>

Params == {":userId"}

SegMatch(pat, seg) == pat \in Params \/ pat = seg

LayerMatches(layer, method, path) ==
    /\ layer.verb \in {"ANY", method}
    /\ IF layer.exact THEN Len(layer.path) = Len(path) ELSE Len(layer.path) <= Len(path)
    /\ \A i \in 1..Len(layer.path) : i <= Len(path) /\ SegMatch(layer.path[i], path[i])

\* The first layer of the stack that matches: the one that handles the request.
Match(method, path) ==
    CHOOSE i \in 1..Len(Stack) :
        /\ LayerMatches(Stack[i], method, path)
        /\ \A j \in 1..(i - 1) : ~LayerMatches(Stack[j], method, path)

\* target of each createProxyMiddleware
Proxies == {"userServiceProxy", "productServiceProxy", "orderServiceProxy", "notificationServiceProxy"}

Target(proxy) ==
    CASE proxy = "userServiceProxy" -> "user"
      [] proxy = "productServiceProxy" -> "product"
      [] proxy = "orderServiceProxy" -> "order"
      [] proxy = "notificationServiceProxy" -> "notification"

-----------------------------------------------------------------------------
(* The request followed through the router *)

NoQuery == [q |-> FALSE, type |-> "all"]

\* req.query of the search route: q present or not, type (default 'all').
Queries ==
    { NoQuery, [q |-> TRUE, type |-> "all"],
      [q |-> TRUE, type |-> "products"], [q |-> TRUE, type |-> "users"] }

\* The requests a client sends.
Requests ==
    { [method |-> m, path |-> p, authHeader |-> h, query |-> NoQuery] :
          m \in Methods, p \in Paths, h \in Headers }
    \cup
    { [method |-> m, path |-> <<"api", "search">>, authHeader |-> h, query |-> q] :
          m \in Methods, h \in Headers, q \in Queries }
    \cup
    { [method |-> m, path |-> p, authHeader |-> h, query |-> NoQuery] :
          m \in Mutating, p \in MutatedPaths, h \in Headers }

\* Requests that arrive while their backend refuses every connection, as it
\* has for as long as any health probe looks back.
DownRequests ==
    { r \in Requests : r.path = <<"api", "orders">> /\ r.method = "GET"
                          /\ r.authHeader \in {NoHeader, <<"Bearer", "tUser">>} }

\* The arrivals: a request, and whether its backend is down.
Arrivals == (Requests \X {FALSE}) \cup (DownRequests \X {TRUE})

IdleReq ==
    [ pc |-> "idle", method |-> "GET", path |-> <<>>, authHeader |-> NoHeader,
      query |-> NoQuery,
      down |-> FALSE,          \* the backend of the request is down
      nexts |-> 0,             \* next() calls of the middlewares and handlers
      totalHits |-> 0,         \* what store.increment returned (while in the limiter)
      verdict |-> "none",      \* the limiter's verdict: "allow" or "deny"
      layer |-> 0, step |-> 0, \* matched layer of Stack, position in its chain
      decoded |-> <<>>,        \* verifyToken's result
      idResp |-> "none",       \* the identity service's answer to the validate call
      user |-> <<>>,           \* req.user
      status |-> 0, message |-> "",           \* the response sent
      success |-> FALSE,                      \* its success flag
      responses |-> 0,                        \* responses sent for this request
      validateCalls |-> 0,                    \* validate calls issued
      backendCalls |-> <<>>,                  \* backends called, in order
      fwdFailed |-> FALSE,                    \* the proxy's onError ran
      sub |-> 0, present |-> {}, degraded |-> {} ]   \* aggregate: sub-call, slots

\* The handler the request is at.
Handler(r) == Stack[r.layer].chain[r.step]

\* res.status(code).json({message}): the response ends the chain.
Respond(r, code, msg) ==
    [r EXCEPT !.pc = "done", !.status = code, !.message = msg, !.responses = @ + 1]

\* res.json({success: true, ...})
RespondOk(r) ==
    [r EXCEPT !.pc = "done", !.status = 200, !.success = TRUE, !.responses = @ + 1]

\* next(): on to the following handler of the matched layer.
NextHandler(r) == [r EXCEPT !.pc = "mw", !.step = @ + 1, !.nexts = @ + 1]

-----------------------------------------------------------------------------
(* Product service: the catalogue, the cache keys and the read functions *)

\* The products of the collection, with the fields no operation changes.
Catalogue == [ p1 |-> [sku |-> "s1", brand |-> "b1", category |-> "c1"] ]

ProductIds == DOMAIN Catalogue

\* Users that write reviews.
Users == {"u1"}

\* Quantities given to updateStock.
Quantities == {-1, 1}

\* The document of a product, as find(...).lean() returns it.
Doc(st, id) ==
    [ id |-> id, sku |-> Catalogue[id].sku,
      stock |-> st[id].stock, reviews |-> st[id].reviews ]

\* Calls of the read functions: function and argument (ids and SKUs asked
\* for include one that no product has).
Reads ==
    { [fn |-> "getProductById", arg |-> id] : id \in ProductIds \cup {"p9"} }
    \cup { [fn |-> "getProductBySku", arg |-> sku] : sku \in {"s1", "s9"} }
    \cup { [fn |-> "getProducts", arg |-> "{}:1:20:{}"],
           [fn |-> "searchProducts", arg |-> "phone:{}:1:20"],
           [fn |-> "getFeaturedProducts", arg |-> "10"],
           [fn |-> "getBrands", arg |-> "all"],
           [fn |-> "getCategories", arg |-> "all"] }

\* Reads of products and of pages of products.
ProductReads == { r \in Reads : r.fn \in {"getProductById", "getProductBySku", "getProducts"} }

\* Reads of each kind of cached data: pages and searches, products and
\* featured products, brands and categories.
KindReads == { r \in Reads : r.fn # "getProductBySku" }

\* const cacheKey = `...` of each read function
cacheKey(fn, arg) ==
    CASE fn = "getProductById" -> <<"product", arg>>
      [] fn = "getProductBySku" -> <<"product", "sku", arg>>
      [] fn = "getProducts" -> <<"products", arg>>
      [] fn = "searchProducts" -> <<"search", arg>>
      [] fn = "getFeaturedProducts" -> <<"featured", "products", arg>>
      [] fn = "getBrands" -> <<"brands", "all">>
      [] fn = "getCategories" -> <<"categories", "all">>

Keys == { cacheKey(r.fn, r.arg) : r \in Reads }

\* A setEx ttl of one hour for every key.
ttlHour(fn) == 3600

\* ttl, in seconds, that each read function gives to setEx
ttl(fn) ==
    CASE fn \in {"getProducts", "searchProducts"} -> 300
      [] fn \in {"getProductById", "getProductBySku", "getFeaturedProducts"} -> 600
      [] fn \in {"getBrands", "getCategories"} -> 3600

\* The store queries of each read function, in the order it awaits them.
StoreCalls(fn) ==
    CASE fn = "getProductById" -> <<"findById">>
      [] fn = "getProductBySku" -> <<"findOne">>
      [] fn \in {"getProducts", "searchProducts"} -> <<"find", "countDocuments">>
      [] fn = "getFeaturedProducts" -> <<"find">>
      [] fn = "getBrands" -> <<"distinct">>
      [] fn = "getCategories" -> <<"getCategoriesWithCount">>

\* The products that the query of the read function selects (every product
\* is active and featured, and matches the search term and the filters).
Matching(fn, arg, st) ==
    CASE fn = "getProductById" -> { id \in ProductIds : id = arg }
      [] fn = "getProductBySku" -> { id \in ProductIds : Catalogue[id].sku = arg }
      [] fn = "getFeaturedProducts" -> { id \in ProductIds : st[id].stock > 0 }
      [] OTHER -> ProductIds

\* What a read function has fetched so far: the documents (or names), and
\* the total of the page (0 until countDocuments, and for the functions
\* that do not count).
NoData == [products |-> {}, total |-> 0]

\* The store query q of the read function, run on the collection.
Fetch(fn, arg, st, q, acc) ==
    CASE q \in {"findById", "findOne", "find"} ->
             [acc EXCEPT !.products = { Doc(st, id) : id \in Matching(fn, arg, st) }]
      [] q = "countDocuments" ->
             [acc EXCEPT !.total = Cardinality(Matching(fn, arg, st))]
      [] q = "distinct" ->
             [acc EXCEPT !.products = { [name |-> Catalogue[id].brand] : id \in ProductIds }]
      [] q = "getCategoriesWithCount" ->
             [acc EXCEPT !.products =
                 { [name |-> Catalogue[id].category,
                    count |-> Cardinality({ o \in ProductIds : Catalogue[o].category = Catalogue[id].category })] :
                   id \in ProductIds }]

\* The read function run on the collection with no cache.
Direct(fn, arg, st) ==
    LET qs == StoreCalls(fn)
        first == Fetch(fn, arg, st, qs[1], NoData)
    IN IF Len(qs) = 1 THEN first ELSE Fetch(fn, arg, st, qs[2], first)

\* if (!product) throw new Error('Product not found')
NotFound(fn, acc) == fn \in {"getProductById", "getProductBySku"} /\ acc.products = {}

IdleReader ==
    [ pc |-> "idle", fn |-> "", arg |-> "",
      seen |-> <<>>,        \* what redisClient.get returned: <<>> (null) or <<entry>>
      q |-> 0,              \* store queries issued
      acc |-> NoData,       \* what the store queries returned
      stored |-> FALSE,     \* setEx was called
      result |-> <<>>,      \* the value returned, <<>> if the read threw
      error |-> "",
      overlapped |-> FALSE ] \* a mutation was being served during the read

IdleWriter ==
    [ pc |-> "idle", op |-> "", id |-> "", quantity |-> 0, user |-> "",
      found |-> 0,          \* the stock of the document that findById loaded
      doc |-> <<>>,         \* the document, as the mutation changed it
      dels |-> <<>>,        \* keys still to delete
      error |-> "",
      alone |-> TRUE,       \* no read was being served while the mutation was
      prev |-> "" ]         \* the mutation completed before this one

-----------------------------------------------------------------------------
(* Notification service: the notification history of one user, the Redis   *)
(* list notifications:<userId>                                             *)

\* sendPushNotification calls that may be served at once
MaxPushers == 2

\* notifications pushed beyond the length the history is trimmed to
MaxExtra == 2

\* notifications pushed around a markNotificationAsRead call
MaxPushed == 3

\* lTrim(key, 0, 99): the index of the last entry kept
trimStop == 99

\* getUserNotifications(userId, 100): the entries markNotificationAsRead loads
markLimit == 100

\* Milliseconds between two Date.now() readings: none, or one.
Ticks == {0, 1}

\* The notification built by sendPushNotification: id is Date.now() as a
\* string, read is false; n numbers the notifications in the order pushed.
Notification(now, n) == [id |-> now, n |-> n, read |-> FALSE]

\* JSON.stringify(notification), the text stored in the list, and JSON.parse
JSONstringify(notification) == <<"id", notification.id, "n", notification.n, "read", notification.read>>
JSONparse(text) == [id |-> text[2], n |-> text[4], read |-> text[6]]

\* notifications.map(n => JSON.parse(n))
ParseAll(list) == [i \in 1..Len(list) |-> JSONparse(list[i])]

\* LRANGE key start stop, on indices counted from 0, stop included
lRange(list, start, stop) == SubSeq(list, start + 1, IF stop + 1 < Len(list) THEN stop + 1 ELSE Len(list))

\* notifications.map(n => { if (n.id === notificationId) n.read = true; return n })
MarkRead(list, notificationId) ==
    [i \in 1..Len(list) |-> IF list[i].id = notificationId THEN [list[i] EXCEPT !.read = TRUE] ELSE list[i]]

IdlePusher == [pc |-> "idle"]

IdleMarker ==
    [ pc |-> "idle",
      id |-> 0,             \* notificationId
      updated |-> <<>>,     \* updatedNotifications
      i |-> 0,              \* entries of updatedNotifications pushed back
      before |-> <<>> ]     \* the list when the call was made

-----------------------------------------------------------------------------
(* Frontend: the AuthContext and the axios instance of services/api.js.    *)
(* null is <<>>, a value v is <<v>>.                                       *)

\* authAPI calls that may be in flight at once
MaxCalls == 2

\* tokens the user service issues at login and at registration
IssuedTokens == {"t1", "t2"}

\* response.data.user of login and register, response.data of validateToken;
\* response.data of updateProfile
Account == "u1"
UpdatedAccount == "u2"

\* How an authAPI call ends: 2xx with success true, 2xx with success false,
\* 401, or any other failure (no response, 4xx, 5xx).
Outcomes == {"success", "refused", "unauthorized", "failed"}

\* initialState, given localStorage.getItem('token')
initialState(stored) == [user |-> <<>>, token |-> stored, loading |-> TRUE, error |-> <<>>]

\* The actions dispatched; a field an action does not carry is <<>>.
Action(type) == [type |-> type, user |-> <<>>, token |-> <<>>, payload |-> <<>>]

authReducer(state, action) ==
    CASE action.type = "LOGIN_START" ->
            [state EXCEPT !.loading = TRUE, !.error = <<>>]
      [] action.type = "LOGIN_SUCCESS" ->
            [state EXCEPT !.user = action.user, !.token = action.token, !.loading = FALSE, !.error = <<>>]
      [] action.type = "LOGIN_FAILURE" ->
            [state EXCEPT !.loading = FALSE, !.error = action.payload]
      [] action.type = "LOGOUT" ->
            [state EXCEPT !.user = <<>>, !.token = <<>>, !.loading = FALSE]
      [] action.type = "UPDATE_USER" ->
            [state EXCEPT !.user = action.payload]
      [] action.type = "SET_LOADING" ->
            [state EXCEPT !.loading = action.payload]
      [] OTHER -> state

\* An authAPI call in flight: token is the state.token its closure holds,
\* bearer the token the request interceptor read from localStorage.
Call(kind, token, bearer) == [kind |-> kind, token |-> token, bearer |-> bearer]

\* How a call may end, given the token it carried: without one, the gateway's
\* authenticate answers the profile route with a 401, and no token is
\* validated.
Settles(c, outcome) ==
    c.bearer = <<>> =>
        /\ c.kind = "updateProfile" => outcome = "unauthorized"
        /\ c.kind = "validateToken" => outcome # "success"

-----------------------------------------------------------------------------
(* Rate limiter: rateLimit({windowMs, max}) mounted first with router.use *)

\* store.increment(key): the new count is the caller's totalHits.
increment(h) == h + 1

\* totalHits > max: the request is answered 429.
LimitExceededOffByOne(totalHits) == totalHits > max + 1

LimitExceeded(totalHits) == totalHits > max

IdleClient == [pc |-> "idle", totalHits |-> 0]

Init ==
    /\ hits = 0
    /\ req = IdleReq
    /\ clients = [c \in 1..MaxClients |-> IdleClient]
    /\ admitted = 0
    /\ denied = 0
    /\ store = [id \in ProductIds |-> [stock |-> MaxStock, reviews |-> {}]]
    /\ redis = [k \in Keys |-> <<>>]
    /\ rd = IdleReader
    /\ wr = IdleWriter
    /\ notifications = <<>>
    /\ push = [p \in 1..MaxPushers |-> IdlePusher]
    /\ mark = IdleMarker
    /\ clock = 1
    /\ sent = 0
    /\ auth = initialState(<<>>)
    /\ localStorage = <<>>
    /\ calls = {}
    /\ effectDue = TRUE

\* A request arrives; the limiter, first in the router, counts it.
limiter(in, down) ==
    /\ req.pc = "idle"
    /\ hits < max + MaxOver
    /\ hits' = increment(hits)
    /\ req' = [IdleReq EXCEPT !.pc = "limiter", !.method = in.method, !.path = in.path,
                              !.authHeader = in.authHeader, !.query = in.query,
                              !.down = down,
                              !.totalHits = increment(hits)]
    /\ UNCHANGED <<clients, admitted, denied, cacheVars, notifVars, frontVars>>

\* The limiter's verdict: 429, or next() into the first matching layer.
limiterVerdictThenNext ==
    /\ req.pc = "limiter"
    /\ req' = [req EXCEPT !.pc = "mw", !.totalHits = 0,
                          !.verdict = IF LimitExceeded(req.totalHits) THEN "deny" ELSE "allow",
                          !.layer = Match(req.method, req.path), !.step = 1]
    /\ UNCHANGED <<hits, clients, admitted, denied, cacheVars, notifVars, frontVars>>

limiterVerdict ==
    /\ req.pc = "limiter"
    /\ IF LimitExceeded(req.totalHits)
       THEN req' = [Respond(req, 429, "Too many requests from this IP, please try again later.")
                       EXCEPT !.verdict = "deny", !.totalHits = 0]
       ELSE req' = [req EXCEPT !.pc = "mw", !.verdict = "allow", !.totalHits = 0,
                               !.layer = Match(req.method, req.path), !.step = 1]
    /\ UNCHANGED <<hits, clients, admitted, denied, cacheVars, notifVars, frontVars>>

\* The response has been sent and the request is over.
finish ==
    /\ req.pc = "done"
    /\ req' = IdleReq
    /\ UNCHANGED <<hits, clients, admitted, denied, cacheVars, notifVars, frontVars>>

-----------------------------------------------------------------------------
(* AuthMiddleware *)

\* authenticate, up to the await of the validate call.
authenticate ==
    /\ req.pc = "mw" /\ Handler(req) = "authenticate"
    /\ LET token == extractToken(req.authHeader)
           decoded == IF Falsy(token) THEN <<>> ELSE verifyToken(token[1])
       IN IF Falsy(token)
          THEN req' = Respond(req, 401, "Access token is required")
          ELSE IF decoded = <<>>
          THEN req' = Respond(req, 401, "Invalid or expired token")
          ELSE req' = [req EXCEPT !.pc = "validating", !.decoded = decoded,
                                  !.validateCalls = @ + 1]
    /\ UNCHANGED <<hits, clients, admitted, denied, cacheVars, notifVars, frontVars>>

\* req.user = {id: decoded.sub, role: decoded.role}
UserOf(decoded) == <<[id |-> decoded[1].sub, role |-> decoded[1].role]>>

\* authenticate, after the validate call returned or failed.
authenticateValidated(resp) ==
    /\ req.pc = "validating" /\ Handler(req) = "authenticate"
    /\ IF ~validateTokenWithUserService(resp)
       THEN req' = [Respond(req, 401, "Token validation failed") EXCEPT !.idResp = resp]
       ELSE req' = [NextHandler(req) EXCEPT !.idResp = resp, !.user = UserOf(req.decoded)]
    /\ UNCHANGED <<hits, clients, admitted, denied, cacheVars, notifVars, frontVars>>

\* optionalAuth, up to the await of the validate call (or to next()).
optionalAuth ==
    /\ req.pc = "mw" /\ Handler(req) = "optionalAuth"
    /\ LET token == extractToken(req.authHeader)
           decoded == IF Falsy(token) THEN <<>> ELSE verifyToken(token[1])
       IN IF ~Falsy(token) /\ decoded # <<>>
          THEN req' = [req EXCEPT !.pc = "validating", !.decoded = decoded,
                                  !.validateCalls = @ + 1]
          ELSE req' = NextHandler(req)
    /\ UNCHANGED <<hits, clients, admitted, denied, cacheVars, notifVars, frontVars>>

\* optionalAuth, after the validate call returned or failed.
optionalAuthValidatedClosed(resp) ==
    /\ req.pc = "validating" /\ Handler(req) = "optionalAuth"
    /\ IF validateTokenWithUserService(resp)
       THEN req' = [NextHandler(req) EXCEPT !.idResp = resp, !.user = UserOf(req.decoded)]
       ELSE req' = [Respond(req, 401, "Token validation failed") EXCEPT !.idResp = resp]
    /\ UNCHANGED <<hits, clients, admitted, denied, cacheVars, notifVars, frontVars>>

optionalAuthValidated(resp) ==
    /\ req.pc = "validating" /\ Handler(req) = "optionalAuth"
    /\ IF validateTokenWithUserService(resp)
       THEN req' = [NextHandler(req) EXCEPT !.idResp = resp, !.user = UserOf(req.decoded)]
       ELSE req' = [NextHandler(req) EXCEPT !.idResp = resp]
    /\ UNCHANGED <<hits, clients, admitted, denied, cacheVars, notifVars, frontVars>>

\* roles.length && !roles.includes(req.user.role)
RoleRefusedLax(roles, role) == FALSE

RoleRefused(roles, role) == roles # {} /\ role \notin roles

\* An authorize whose refusals do not return: the response is sent and
\* next() is called.
authorizeNoReturn(roles) ==
    IF req.user = <<>>
    THEN req' = NextHandler(Respond(req, 401, "Authentication required"))
    ELSE IF RoleRefused(roles, req.user[1].role)
    THEN req' = NextHandler(Respond(req, 403, "Insufficient permissions"))
    ELSE req' = NextHandler(req)

\* authorize(roles)
authorize(roles) ==
    IF req.user = <<>>
    THEN req' = Respond(req, 401, "Authentication required")
    ELSE IF RoleRefused(roles, req.user[1].role)
    THEN req' = Respond(req, 403, "Insufficient permissions")
    ELSE req' = NextHandler(req)

\* requireAdmin = authorize(['ADMIN'])
requireAdmin ==
    /\ req.pc = "mw" /\ Handler(req) = "requireAdmin"
    /\ authorize({"ADMIN"})
    /\ UNCHANGED <<hits, clients, admitted, denied, cacheVars, notifVars, frontVars>>

-----------------------------------------------------------------------------
(* Proxies and plain handlers *)

\* Status codes a backend answers with.
BackendStatuses == {200, 500}

\* message of each proxy's onError
Unavailable(proxy) ==
    CASE proxy = "userServiceProxy" -> "User Service is temporarily unavailable"
      [] proxy = "productServiceProxy" -> "Product Service is temporarily unavailable"
      [] proxy = "orderServiceProxy" -> "Order Service is temporarily unavailable"
      [] proxy = "notificationServiceProxy" -> "Notification Service is temporarily unavailable"

\* createProxyMiddleware(...): the request is sent on to the proxy's target.
proxyForward ==
    /\ req.pc = "mw" /\ Handler(req) \in Proxies
    /\ req' = [req EXCEPT !.pc = "proxying",
                          !.backendCalls = Append(@, Target(Handler(req)))]
    /\ UNCHANGED <<hits, clients, admitted, denied, cacheVars, notifVars, frontVars>>

\* The backend's response is relayed.
proxyResponse(code) ==
    /\ req.pc = "proxying" /\ ~req.down
    /\ req' = [req EXCEPT !.pc = "done", !.status = code, !.success = (code = 200),
                          !.responses = @ + 1]
    /\ UNCHANGED <<hits, clients, admitted, denied, cacheVars, notifVars, frontVars>>

\* An onError that passes the failure on as a 502.
proxyErrorBadGateway ==
    /\ req.pc = "proxying"
    /\ req' = [Respond(req, 502, "Bad Gateway") EXCEPT !.fwdFailed = TRUE]
    /\ UNCHANGED <<hits, clients, admitted, denied, cacheVars, notifVars, frontVars>>

\* onError: the backend could not be reached.
proxyError ==
    /\ req.pc = "proxying"
    /\ req' = [Respond(req, 503, Unavailable(Handler(req))) EXCEPT !.fwdFailed = TRUE]
    /\ UNCHANGED <<hits, clients, admitted, denied, cacheVars, notifVars, frontVars>>

\* router.get('/health', ...)
health ==
    /\ req.pc = "mw" /\ Handler(req) = "health"
    /\ req' = [RespondOk(req) EXCEPT !.message = "API Gateway is running"]
    /\ UNCHANGED <<hits, clients, admitted, denied, cacheVars, notifVars, frontVars>>

\* A catch-all that answers with an empty success.
notFoundOk ==
    /\ req.pc = "mw" /\ Handler(req) = "notFound"
    /\ req' = RespondOk(req)
    /\ UNCHANGED <<hits, clients, admitted, denied, cacheVars, notifVars, frontVars>>

\* router.use('*', ...): 404 handler
notFound ==
    /\ req.pc = "mw" /\ Handler(req) = "notFound"
    /\ req' = Respond(req, 404, "Route not found")
    /\ UNCHANGED <<hits, clients, admitted, denied, cacheVars, notifVars, frontVars>>

-----------------------------------------------------------------------------
(* Aggregate handlers *)

\* GET /api/search, up to the await of the product sub-call.
\* A search handler that calls the product service before it looks at q.
searchUnchecked ==
    /\ req.pc = "mw" /\ Handler(req) = "search"
    /\ IF req.query.type \in {"all", "products"}
       THEN req' = [req EXCEPT !.pc = "searchCall", !.sub = 1,
                               !.backendCalls = Append(@, "product")]
       ELSE IF ~req.query.q
       THEN req' = Respond(req, 400, "Search query is required")
       ELSE req' = RespondOk(req)
    /\ UNCHANGED <<hits, clients, admitted, denied, cacheVars, notifVars, frontVars>>

search ==
    /\ req.pc = "mw" /\ Handler(req) = "search"
    /\ IF ~req.query.q
       THEN req' = Respond(req, 400, "Search query is required")
       ELSE IF req.query.type \in {"all", "products"}
       THEN req' = [req EXCEPT !.pc = "searchCall", !.sub = 1,
                               !.backendCalls = Append(@, "product")]
       ELSE req' = RespondOk(req)
    /\ UNCHANGED <<hits, clients, admitted, denied, cacheVars, notifVars, frontVars>>

\* GET /api/search, after the product sub-call returned (ok) or failed.
searchReturned(ok) ==
    /\ req.pc = "searchCall"
    /\ IF ok
       THEN req' = [RespondOk(req) EXCEPT !.present = @ \cup {"products"}]
       ELSE req' = [RespondOk(req) EXCEPT !.degraded = @ \cup {"products"}]
    /\ UNCHANGED <<hits, clients, admitted, denied, cacheVars, notifVars, frontVars>>

\* The dashboard's sub-calls, in the order the handler awaits them.
DashboardCalls ==
    << [slot |-> "profile", backend |-> "user"],
       [slot |-> "recentOrders", backend |-> "order"],
       [slot |-> "statistics", backend |-> "order"],
       [slot |-> "notifications", backend |-> "notification"] >>

\* GET /api/dashboard, up to the await of the first sub-call.
dashboard ==
    /\ req.pc = "mw" /\ Handler(req) = "dashboard"
    /\ IF req.user = <<>>
       THEN req' = Respond(req, 500, "Dashboard service error")
       ELSE req' = [req EXCEPT !.pc = "dashboardCall", !.sub = 1,
                               !.backendCalls = Append(@, DashboardCalls[1].backend)]
    /\ UNCHANGED <<hits, clients, admitted, denied, cacheVars, notifVars, frontVars>>

\* GET /api/dashboard, after sub-call req.sub returned (ok) or failed: the
\* slot is filled only on success; the next sub-call, or the response.
dashboardReturned(ok) ==
    /\ req.pc = "dashboardCall"
    /\ LET filled == IF ok THEN req.present \cup {DashboardCalls[req.sub].slot}
                          ELSE req.present
       IN IF req.sub < Len(DashboardCalls)
          THEN req' = [req EXCEPT !.present = filled, !.sub = @ + 1,
                                  !.backendCalls = Append(@, DashboardCalls[req.sub + 1].backend)]
          ELSE req' = [RespondOk(req) EXCEPT !.present = filled]
    /\ UNCHANGED <<hits, clients, admitted, denied, cacheVars, notifVars, frontVars>>

-----------------------------------------------------------------------------
(* Concurrent requests of the client key inside the limiter *)

\* A request arrives and store.increment counts it.
clientIncrement(c) ==
    /\ clients[c].pc = "idle"
    /\ hits < max + MaxOver
    /\ hits' = increment(hits)
    /\ clients' = [clients EXCEPT ![c] = [pc |-> "counted", totalHits |-> increment(hits)]]
    /\ UNCHANGED <<req, admitted, denied, cacheVars, notifVars, frontVars>>

\* The limiter compares the request's totalHits with max.
clientVerdict(c) ==
    /\ clients[c].pc = "counted"
    /\ IF LimitExceeded(clients[c].totalHits)
       THEN denied' = denied + 1 /\ admitted' = admitted
       ELSE admitted' = admitted + 1 /\ denied' = denied
    /\ clients' = [clients EXCEPT ![c] = IdleClient]
    /\ UNCHANGED <<hits, req, cacheVars, notifVars, frontVars>>

\* windowMs has elapsed: the store's reset timer clears the count. A timer
\* callback runs between requests' turns, never inside the limiter's own
\* increment-then-compare.
windowReset ==
    /\ hits > 0
    /\ req.pc # "limiter"
    /\ \A c \in 1..MaxClients : clients[c].pc = "idle"
    /\ hits' = 0 /\ admitted' = 0 /\ denied' = 0
    /\ UNCHANGED <<req, clients, cacheVars, notifVars, frontVars>>

-----------------------------------------------------------------------------
(* Product service: the read functions, each with its read-through cache *)

gatewayVars == <<hits, req, clients, admitted, denied>>

\* setEx(key, ttl, value): the entry, which Redis keeps for ttl seconds.
Entry(payload, seconds) == <<[payload |-> payload, ttl |-> seconds, age |-> 0]>>

\* A read function is called: await redisClient.get(cacheKey). A hit returns
\* the parsed entry; a miss goes on to the store.
cacheGet(fn, arg) ==
    /\ rd.pc = "idle"
    /\ LET seen == redis[cacheKey(fn, arg)]
           call == [IdleReader EXCEPT !.fn = fn, !.arg = arg, !.seen = seen,
                                      !.overlapped = wr.pc \in {"save", "del"}]
       IN rd' = IF seen # <<>>
                THEN [call EXCEPT !.pc = "done", !.result = <<seen[1].payload>>]
                ELSE [call EXCEPT !.pc = "query"]
    /\ wr' = IF wr.pc \in {"save", "del"} THEN [wr EXCEPT !.alone = FALSE] ELSE wr
    /\ UNCHANGED <<store, redis, gatewayVars, notifVars, frontVars>>

\* A store query that caches the miss of a product as an empty result.
storeQueryCachesNull ==
    /\ rd.pc = "query"
    /\ LET acc == Fetch(rd.fn, rd.arg, store, StoreCalls(rd.fn)[rd.q + 1], rd.acc)
       IN rd' = IF rd.q + 1 < Len(StoreCalls(rd.fn))
                THEN [rd EXCEPT !.q = @ + 1, !.acc = acc]
                ELSE [rd EXCEPT !.pc = "set", !.q = @ + 1, !.acc = acc,
                                !.error = IF NotFound(rd.fn, acc) THEN "Product not found" ELSE ""]
    /\ UNCHANGED <<store, redis, wr, gatewayVars, notifVars, frontVars>>

\* The next store query of the read function returns: a product that is not
\* there throws, the last query leads to setEx.
storeQuery ==
    /\ rd.pc = "query"
    /\ LET acc == Fetch(rd.fn, rd.arg, store, StoreCalls(rd.fn)[rd.q + 1], rd.acc)
       IN rd' = IF NotFound(rd.fn, acc)
                THEN [rd EXCEPT !.pc = "done", !.q = @ + 1, !.acc = acc,
                                !.error = "Product not found"]
                ELSE IF rd.q + 1 < Len(StoreCalls(rd.fn))
                THEN [rd EXCEPT !.q = @ + 1, !.acc = acc]
                ELSE [rd EXCEPT !.pc = "set", !.q = @ + 1, !.acc = acc]
    /\ UNCHANGED <<store, redis, wr, gatewayVars, notifVars, frontVars>>

\* The next store query fails: catch (error) { ...; throw error; }
storeError ==
    /\ rd.pc = "query"
    /\ rd' = [rd EXCEPT !.pc = "done", !.q = @ + 1, !.error = "store error"]
    /\ UNCHANGED <<store, redis, wr, gatewayVars, notifVars, frontVars>>

\* await redisClient.setEx(cacheKey, ttl, JSON.stringify(result)); return result
cacheSetEx ==
    /\ rd.pc = "set"
    /\ redis' = [redis EXCEPT ![cacheKey(rd.fn, rd.arg)] = Entry(rd.acc, ttl(rd.fn))]
    /\ rd' = [rd EXCEPT !.pc = "done", !.stored = TRUE, !.result = <<rd.acc>>]
    /\ UNCHANGED <<store, wr, gatewayVars, notifVars, frontVars>>

\* The caller has the result; the next read.
readReturn ==
    /\ rd.pc = "done"
    /\ rd' = IdleReader
    /\ UNCHANGED <<store, redis, wr, gatewayVars, notifVars, frontVars>>

\* Step seconds pass: Redis drops the entries that reach their ttl.
Tick ==
    /\ \E k \in Keys : redis[k] # <<>>
    /\ redis' = [k \in Keys |->
                    IF redis[k] = <<>> \/ redis[k][1].age + Step >= redis[k][1].ttl
                    THEN <<>>
                    ELSE <<[redis[k][1] EXCEPT !.age = @ + Step]>>]
    /\ UNCHANGED <<store, rd, wr, gatewayVars, notifVars, frontVars>>

-----------------------------------------------------------------------------
(* Product service: the mutations, each with its cache invalidation *)

Max(a, b) == IF a >= b THEN a ELSE b

\* A del that removes the key or, if it is not there, leaves a marker.
delToggle(r, key) ==
    [r EXCEPT ![key] = IF @ = <<>> THEN Entry(NoData, 0) ELSE <<>>]

\* redisClient.del(key)
del(r, key) == [r EXCEPT ![key] = <<>>]

\* The keys each mutation deletes after product.save(), in order.
InvalidatedKeys(op, id) ==
    CASE op = "updateStock" -> << <<"product", id>>, <<"product", "sku", Catalogue[id].sku>> >>
      [] op = "addReview" -> << <<"product", id>> >>

\* A mutation begins while a read is being served.
Overlaps == rd.pc \in {"query", "set"}

\* updateStock(productId, quantity), up to the await of product.save()
updateStock(productId, quantity) ==
    /\ wr.pc = "idle"
    /\ productId \in ProductIds => store[productId].stock + quantity <= MaxStock
    /\ LET call == [IdleWriter EXCEPT !.op = "updateStock", !.id = productId,
                                      !.quantity = quantity, !.prev = wr.prev,
                                      !.alone = ~Overlaps]
       IN wr' = IF productId \notin ProductIds
                THEN [call EXCEPT !.pc = "done", !.error = "Product not found"]
                ELSE [call EXCEPT !.pc = "save", !.found = store[productId].stock,
                          !.doc = <<[store[productId] EXCEPT
                                       !.stock = Max(0, store[productId].stock + quantity)]>>]
    /\ UNCHANGED <<store, redis, rd, gatewayVars, notifVars, frontVars>>

\* addReview(productId, userId, rating, comment), up to the await of
\* product.save()
addReview(productId, userId) ==
    /\ wr.pc = "idle"
    /\ LET call == [IdleWriter EXCEPT !.op = "addReview", !.id = productId,
                                      !.user = userId, !.prev = wr.prev,
                                      !.alone = ~Overlaps]
       IN wr' = IF productId \notin ProductIds
                THEN [call EXCEPT !.pc = "done", !.error = "Product not found"]
                ELSE IF userId \in store[productId].reviews
                THEN [call EXCEPT !.pc = "done",
                                  !.error = "User has already reviewed this product"]
                ELSE [call EXCEPT !.pc = "save",
                          !.doc = <<[store[productId] EXCEPT !.reviews = @ \cup {userId}]>>]
    /\ UNCHANGED <<store, redis, rd, gatewayVars, notifVars, frontVars>>

\* await product.save(): the modified path of the document is written.
save ==
    /\ wr.pc = "save"
    /\ store' = IF wr.op = "updateStock"
                THEN [store EXCEPT ![wr.id].stock = wr.doc[1].stock]
                ELSE [store EXCEPT ![wr.id].reviews = wr.doc[1].reviews]
    /\ wr' = [wr EXCEPT !.pc = "del", !.dels = InvalidatedKeys(wr.op, wr.id)]
    /\ rd' = IF rd.pc # "idle" THEN [rd EXCEPT !.overlapped = TRUE] ELSE rd
    /\ UNCHANGED <<redis, gatewayVars, notifVars, frontVars>>

\* await redisClient.del(key), for the next key; after the last the mutation
\* returns the product.
delKey ==
    /\ wr.pc = "del"
    /\ redis' = del(redis, Head(wr.dels))
    /\ wr' = [wr EXCEPT !.dels = Tail(@),
                        !.pc = IF Len(wr.dels) = 1 THEN "done" ELSE "del"]
    /\ UNCHANGED <<store, rd, gatewayVars, notifVars, frontVars>>

\* The caller has the product, or the error; the next mutation.
mutationReturn ==
    /\ wr.pc = "done"
    /\ wr' = [IdleWriter EXCEPT !.prev = IF wr.error = "" THEN wr.op ELSE wr.prev]
    /\ UNCHANGED <<store, redis, rd, gatewayVars, notifVars, frontVars>>

-----------------------------------------------------------------------------
(* Notification service: sendPushNotification and markNotificationAsRead,  *)
(* one step per Redis command                                              *)

\* sendPushNotification, to its second await: the notification is built and
\* lPush puts it at the head of the list.
sendPushNotification(p, tick) ==
    /\ push[p].pc = "idle"
    /\ sent < trimStop + 1 + MaxExtra
    /\ clock' = clock + tick
    /\ sent' = sent + 1
    /\ notifications' = <<JSONstringify(Notification(clock + tick, sent + 1))>> \o notifications
    /\ push' = [push EXCEPT ![p].pc = "lTrim"]
    /\ UNCHANGED <<mark, gatewayVars, cacheVars, frontVars>>

lTrimKeepsOneMore(p) ==
    /\ push[p].pc = "lTrim"
    /\ notifications' = lRange(notifications, 0, trimStop + 1)
    /\ push' = [push EXCEPT ![p].pc = "idle"]
    /\ UNCHANGED <<mark, clock, sent, gatewayVars, cacheVars, frontVars>>

\* lTrim(key, 0, 99), and the call returns the notification.
lTrim(p) ==
    /\ push[p].pc = "lTrim"
    /\ notifications' = lRange(notifications, 0, trimStop)
    /\ push' = [push EXCEPT ![p].pc = "idle"]
    /\ UNCHANGED <<mark, clock, sent, gatewayVars, cacheVars, frontVars>>

\* markNotificationAsRead, to its second await: getUserNotifications(userId,
\* 100) reads the list and the entries with the id are marked, in memory.
markNotificationAsRead(notificationId) ==
    /\ mark.pc = "idle"
    /\ mark' = [mark EXCEPT !.pc = "del",
                            !.id = notificationId,
                            !.updated = MarkRead(ParseAll(lRange(notifications, 0, markLimit - 1)), notificationId),
                            !.before = ParseAll(notifications)]
    /\ UNCHANGED <<notifications, push, clock, sent, gatewayVars, cacheVars, frontVars>>

\* redisClient.del(`notifications:${userId}`)
delList ==
    /\ mark.pc = "del"
    /\ notifications' = <<>>
    /\ mark' = [mark EXCEPT !.pc = IF mark.updated = <<>> THEN "done" ELSE "rPush"]
    /\ UNCHANGED <<push, clock, sent, gatewayVars, cacheVars, frontVars>>

\* One turn of the loop: rPush of the next entry of updatedNotifications.
rPush ==
    /\ mark.pc = "rPush"
    /\ notifications' = Append(notifications, JSONstringify(mark.updated[mark.i + 1]))
    /\ mark' = [mark EXCEPT !.i = mark.i + 1,
                            !.pc = IF mark.i + 1 = Len(mark.updated) THEN "done" ELSE "rPush"]
    /\ UNCHANGED <<push, clock, sent, gatewayVars, cacheVars, frontVars>>

-----------------------------------------------------------------------------
(* Frontend: the AuthProvider *)

\* dispatch(action): the reducer runs, and the effect keyed on [state.token]
\* is due again if the token has changed.
dispatch(action) ==
    /\ auth' = authReducer(auth, action)
    /\ effectDue' = (effectDue \/ authReducer(auth, action).token # auth.token)

\* The page is loaded: the module is evaluated, the provider mounts, and the
\* calls of the page before it are gone.
load ==
    /\ auth' = initialState(localStorage)
    /\ calls' = {}
    /\ effectDue' = TRUE
    /\ UNCHANGED <<localStorage, gatewayVars, cacheVars, notifVars>>

\* The response interceptor on a 401: the token is removed from localStorage
\* and window.location.href = '/login' loads the page again.
unauthorized ==
    /\ localStorage' = <<>>
    /\ auth' = initialState(<<>>)
    /\ calls' = {}
    /\ effectDue' = TRUE
    /\ UNCHANGED <<gatewayVars, cacheVars, notifVars>>

\* The effect, after the mount and after each change of state.token.
validateToken ==
    /\ effectDue
    /\ IF auth.token # <<>>
       THEN /\ Cardinality(calls) < MaxCalls
            /\ calls' = calls \cup {Call("validateToken", auth.token, localStorage)}
            /\ effectDue' = FALSE
            /\ UNCHANGED auth
       ELSE /\ auth' = authReducer(auth, [Action("SET_LOADING") EXCEPT !.payload = FALSE])
            /\ effectDue' = FALSE
            /\ UNCHANGED calls
    /\ UNCHANGED <<localStorage, gatewayVars, cacheVars, notifVars>>

\* authAPI.validateToken() settles.
validateTokenReturned(c, outcome) ==
    /\ ~effectDue
    /\ c \in calls /\ c.kind = "validateToken"
    /\ Settles(c, outcome)
    /\ IF outcome = "unauthorized"
       THEN unauthorized
       ELSE /\ calls' = calls \ {c}
            /\ IF outcome = "success"
               THEN dispatch([Action("LOGIN_SUCCESS") EXCEPT !.user = <<Account>>, !.token = c.token])
               ELSE dispatch(Action("LOGOUT"))
            /\ UNCHANGED <<localStorage, gatewayVars, cacheVars, notifVars>>

\* login, to its await: LOGIN_START, and authAPI.login is called.
login ==
    /\ ~effectDue
    /\ Cardinality(calls) < MaxCalls
    /\ dispatch(Action("LOGIN_START"))
    /\ calls' = calls \cup {Call("login", <<>>, localStorage)}
    /\ UNCHANGED <<localStorage, gatewayVars, cacheVars, notifVars>>

\* login, from its await: authAPI.login settles.
loginReturned(c, outcome, token) ==
    /\ ~effectDue
    /\ c \in calls /\ c.kind = "login"
    /\ Settles(c, outcome)
    /\ IF outcome = "unauthorized"
       THEN unauthorized
       ELSE /\ calls' = calls \ {c}
            /\ IF outcome = "success"
               THEN /\ localStorage' = <<token>>
                    /\ dispatch([Action("LOGIN_SUCCESS") EXCEPT !.user = <<Account>>, !.token = <<token>>])
               ELSE /\ dispatch([Action("LOGIN_FAILURE") EXCEPT !.payload = <<outcome>>])
                    /\ UNCHANGED localStorage
            /\ UNCHANGED <<gatewayVars, cacheVars, notifVars>>

\* register, to its await: LOGIN_START, and authAPI.register is called.
register ==
    /\ ~effectDue
    /\ Cardinality(calls) < MaxCalls
    /\ dispatch(Action("LOGIN_START"))
    /\ calls' = calls \cup {Call("register", <<>>, localStorage)}
    /\ UNCHANGED <<localStorage, gatewayVars, cacheVars, notifVars>>

\* register, from its await: authAPI.register settles.
registerReturned(c, outcome, token) ==
    /\ ~effectDue
    /\ c \in calls /\ c.kind = "register"
    /\ Settles(c, outcome)
    /\ IF outcome = "unauthorized"
       THEN unauthorized
       ELSE /\ calls' = calls \ {c}
            /\ IF outcome = "success"
               THEN /\ localStorage' = <<token>>
                    /\ dispatch([Action("LOGIN_SUCCESS") EXCEPT !.user = <<Account>>, !.token = <<token>>])
               ELSE /\ dispatch([Action("LOGIN_FAILURE") EXCEPT !.payload = <<outcome>>])
                    /\ UNCHANGED localStorage
            /\ UNCHANGED <<gatewayVars, cacheVars, notifVars>>

logout ==
    /\ ~effectDue
    /\ localStorage' = <<>>
    /\ dispatch(Action("LOGOUT"))
    /\ UNCHANGED <<calls, gatewayVars, cacheVars, notifVars>>

updateProfile ==
    /\ ~effectDue
    /\ Cardinality(calls) < MaxCalls
    /\ calls' = calls \cup {Call("updateProfile", <<>>, localStorage)}
    /\ UNCHANGED <<auth, localStorage, effectDue, gatewayVars, cacheVars, notifVars>>

updateProfileReturned(c, outcome) ==
    /\ ~effectDue
    /\ c \in calls /\ c.kind = "updateProfile"
    /\ Settles(c, outcome)
    /\ IF outcome = "unauthorized"
       THEN unauthorized
       ELSE /\ calls' = calls \ {c}
            /\ IF outcome = "success"
               THEN dispatch([Action("UPDATE_USER") EXCEPT !.payload = <<UpdatedAccount>>])
               ELSE UNCHANGED <<auth, effectDue>>
            /\ UNCHANGED <<localStorage, gatewayVars, cacheVars, notifVars>>

-----------------------------------------------------------------------------
(* Specifications *)

Next ==
    \/ \E a \in Arrivals : limiter(a[1], a[2])
    \/ limiterVerdict
    \/ finish
    \/ windowReset
    \/ authenticate
    \/ \E resp \in IdResponses : authenticateValidated(resp)
    \/ optionalAuth
    \/ \E resp \in IdResponses : optionalAuthValidated(resp)
    \/ requireAdmin
    \/ proxyForward
    \/ \E code \in BackendStatuses : proxyResponse(code)
    \/ proxyError
    \/ health
    \/ notFound
    \/ search
    \/ \E ok \in BOOLEAN : searchReturned(ok)
    \/ dashboard
    \/ \E ok \in BOOLEAN : dashboardReturned(ok)

Spec == Init /\ [][Next]_vars

\* timeout, in ms, given to each axios call: the validate call of the auth
\* middleware and the sub-calls of the aggregate handlers
timeout == 5000

\* timeout of the proxies, none or <<ms>>: createProxyMiddleware is given
\* neither a timeout nor a proxyTimeout option
proxyTimeout == <<>>

\* Steps the gateway takes by itself.
GatewayStep ==
    \/ limiterVerdict \/ finish
    \/ authenticate \/ optionalAuth \/ requireAdmin
    \/ proxyForward \/ health \/ notFound \/ search \/ dashboard

\* Ends of the waits on an axios call: it returns or throws.
axiosSettled ==
    \/ \E resp \in IdResponses : authenticateValidated(resp)
    \/ \E resp \in IdResponses : optionalAuthValidated(resp)
    \/ \E ok \in BOOLEAN : searchReturned(ok)
    \/ \E ok \in BOOLEAN : dashboardReturned(ok)

\* Ends of the wait of a proxy: the backend's response or onError.
proxySettled ==
    \/ \E code \in BackendStatuses : proxyResponse(code)
    \/ proxyError

\* Ends of the waits that a gateway-side timeout bounds.
BoundedWait ==
    \/ (timeout > 0 /\ axiosSettled)
    \/ (proxyTimeout # <<>> /\ proxySettled)

\* The event loop runs every ready callback, and every armed timeout fires;
\* nothing makes a backend answer.
SpecLive == Init /\ [][Next]_vars /\ WF_vars(GatewayStep) /\ WF_vars(BoundedWait)

NextLimiter ==
    \/ \E c \in 1..MaxClients : clientIncrement(c)
    \/ \E c \in 1..MaxClients : clientVerdict(c)
    \/ windowReset

SpecLimiter == Init /\ [][NextLimiter]_vars

NextCache ==
    \/ \E r \in ProductReads : cacheGet(r.fn, r.arg)
    \/ storeQuery
    \/ storeError
    \/ cacheSetEx
    \/ readReturn
    \/ \E id \in ProductIds \cup {"p9"}, quantity \in Quantities : updateStock(id, quantity)
    \/ \E id \in ProductIds \cup {"p9"}, user \in Users : addReview(id, user)
    \/ save
    \/ delKey
    \/ mutationReturn
    \/ Tick

SpecCache == Init /\ [][NextCache]_vars

NextTtl ==
    \/ \E r \in KindReads : cacheGet(r.fn, r.arg)
    \/ storeQuery
    \/ storeError
    \/ cacheSetEx
    \/ readReturn
    \/ Tick

SpecTtl == Init /\ [][NextTtl]_vars

NextPush ==
    \/ \E p \in 1..MaxPushers : sendPushNotification(p, 1)
    \/ \E p \in 1..MaxPushers : lTrim(p)

SpecPush == Init /\ [][NextPush]_vars

\* The ids in the list, and one that is not.
NotificationIds == {0} \cup {JSONparse(notifications[i]).id : i \in 1..Len(notifications)}

NextNotify ==
    \/ \E p \in 1..MaxPushers, tick \in Ticks : (sent < MaxPushed /\ sendPushNotification(p, tick))
    \/ \E p \in 1..MaxPushers : lTrim(p)
    \/ \E id \in NotificationIds : markNotificationAsRead(id)
    \/ delList
    \/ rPush

SpecNotify == Init /\ [][NextNotify]_vars

NextAuth ==
    \/ load
    \/ validateToken
    \/ \E c \in calls, outcome \in Outcomes : validateTokenReturned(c, outcome)
    \/ login
    \/ \E c \in calls, outcome \in Outcomes, token \in IssuedTokens : loginReturned(c, outcome, token)
    \/ register
    \/ \E c \in calls, outcome \in Outcomes, token \in IssuedTokens : registerReturned(c, outcome, token)
    \/ logout
    \/ updateProfile
    \/ \E c \in calls, outcome \in Outcomes : updateProfileReturned(c, outcome)

SpecAuth == Init /\ [][NextAuth]_vars

-----------------------------------------------------------------------------
(* Vocabulary of the properties *)

Done == req.pc = "done"

\* The request has been dispatched to a layer of the route table.
Routed == req.layer # 0

\* The auth requirement of the route the request was dispatched to.
RouteAuth ==
    IF ~Routed THEN "unrouted"
    ELSE IF Stack[req.layer].chain[1] = "authenticate" THEN "required"
    ELSE IF Stack[req.layer].chain[1] = "optionalAuth" THEN "optional"
    ELSE "none"

\* The route demands the ADMIN role.
AdminRoute == Routed /\ Len(Stack[req.layer].chain) >= 2 /\ Stack[req.layer].chain[2] = "requireAdmin"

\* The header is of the form 'Bearer <token>'.
BearerForm(h) == Len(h) = 2 /\ h[1] = "Bearer" /\ h[2] # ""

\* The bearer token stands the stateless check: a JWT signed with the
\* gateway's secret whose expiry has not passed.
LocallyValid(h) ==
    /\ BearerForm(h) /\ h[2] \in Tokens
    /\ TokenTable[h[2]].jwt /\ TokenTable[h[2]].key = jwtSecret /\ ~TokenTable[h[2]].expired

\* Error responses of the Auth Delegate.
AuthMessages ==
    { "Access token is required", "Invalid or expired token", "Token validation failed",
      "Authentication error", "Authentication required", "Insufficient permissions" }

\* The backend the documentation configures for a path prefix.
Documented ==
    [ auth |-> "user", users |-> "user", products |-> "product", categories |-> "product",
      cart |-> "order", orders |-> "order", notifications |-> "notification" ]

-----------------------------------------------------------------------------
(* Properties *)

C2_LocalFailureRejected ==
    (RouteAuth \in {"required", "optional"}
        /\ BearerForm(req.authHeader) /\ ~LocallyValid(req.authHeader)) =>
        /\ req.validateCalls = 0
        /\ req.backendCalls = <<>>
        /\ Done => req.status = 401

\* C3: req.user is attached only if the token stood the local check and the
\* identity service confirmed it valid; on an auth=required route a backend is
\* called only in that case, and a token the identity service confirms
\* invalid is answered 401 'Token validation failed' with no backend call.
C3_AuthContextOnlyIfConfirmed ==
    /\ req.user # <<>> => (LocallyValid(req.authHeader) /\ req.idResp = "valid")
    /\ (RouteAuth = "required" /\ req.backendCalls # <<>>) =>
           (req.user # <<>> /\ LocallyValid(req.authHeader) /\ req.idResp = "valid")
    /\ (RouteAuth = "required" /\ req.idResp = "invalid") =>
           /\ Done /\ req.status = 401 /\ req.message = "Token validation failed"
           /\ req.backendCalls = <<>>

C3_Witness ==
    /\ Done /\ RouteAuth = "required" /\ req.user # <<>>
    /\ req.idResp = "valid" /\ req.backendCalls # <<>>

\* C4 (as claimed): on an auth=required route, when the validate call times out
\* or the identity service is unreachable, the request is rejected with 503
\* (auth_service_unavailable), not with the 401 of a rejected token, and no
\* backend is called.
C4_UnavailableIs503 ==
    (RouteAuth = "required" /\ req.idResp = "unreachable") =>
        /\ req.backendCalls = <<>>
        /\ Done => (req.status = 503 /\ req.message # "Token validation failed")

\* C5 (as claimed): on an auth=optional route a request whose token is present
\* but fails the local check, or is confirmed invalid by the identity
\* service, is rejected with 401 and not forwarded as Anonymous.
C5_OptionalRejectsBadToken ==
    (RouteAuth = "optional" /\ BearerForm(req.authHeader)
        /\ (~LocallyValid(req.authHeader) \/ req.idResp = "invalid")) =>
        /\ req.backendCalls = <<>>
        /\ req.step = 1
        /\ Done => req.status = 401

\* C6: on an auth=optional route, when the validate call times out or the
\* identity service is unreachable, the request goes on to the route's
\* handler as Anonymous: no auth context, no error response of the Auth
\* Delegate, and the cart request reaches the order service.
C6_OptionalFailsOpen ==
    (RouteAuth = "optional" /\ req.idResp = "unreachable") =>
        /\ req.user = <<>>
        /\ req.step = 2
        /\ req.message \notin AuthMessages
        /\ (req.pc \in {"proxying", "done"} /\ Handler(req) = "orderServiceProxy") =>
               req.backendCalls = <<"order">>

C6_Witness ==
    /\ Done /\ RouteAuth = "optional" /\ req.idResp = "unreachable"
    /\ req.backendCalls = <<"order">> /\ req.status = 200 /\ req.user = <<>>

\* C7: on a route that requires the ADMIN role a backend is called only for
\* an auth context whose role is ADMIN; an authenticated request with another
\* role is answered 403, one with no auth context 401, both without a
\* backend call.
C7_AdminOnly ==
    AdminRoute =>
        /\ req.backendCalls # <<>> => (req.user # <<>> /\ req.user[1].role = "ADMIN")
        /\ (req.user # <<>> /\ req.user[1].role # "ADMIN" /\ req.step >= 2) =>
               (Done => req.status = 403) /\ req.backendCalls = <<>>
        /\ (Done /\ req.user = <<>>) => (req.status = 401 /\ req.backendCalls = <<>>)

C7_Witness ==
    /\ Done /\ AdminRoute /\ req.user # <<>> /\ req.user[1].role = "USER"
    /\ req.status = 403 /\ req.backendCalls = <<>>

Min(a, b) == IF a <= b THEN a ELSE b

\* Requests counted in the current window whose verdict is still to come:
\* those among the first max, and those beyond.
PendingWithin == Cardinality({c \in 1..MaxClients : clients[c].pc = "counted" /\ clients[c].totalHits <= max})
PendingBeyond == Cardinality({c \in 1..MaxClients : clients[c].pc = "counted" /\ clients[c].totalHits > max})

C9_LimiterFirst ==
    /\ req.verdict = "deny" =>
           /\ Done /\ req.status = 429
           /\ ~Routed /\ req.validateCalls = 0 /\ req.backendCalls = <<>>
    /\ (Routed \/ req.validateCalls > 0 \/ req.backendCalls # <<>>) => req.verdict = "allow"

C9_Witness ==
    /\ Done /\ req.verdict = "deny" /\ req.status = 429
    /\ req.path = <<"api", "orders">> /\ req.authHeader = <<"Bearer", "tUser">>

\* The request was neither denied by the limiter nor rejected by the Auth
\* Delegate.
Admitted == req.verdict = "allow" /\ req.message \notin AuthMessages

\* C10 (as claimed): every admitted request under a documented prefix
\* (/api/auth, /api/users, /api/products, /api/categories, /api/cart,
\* /api/orders, /api/notifications) is forwarded to exactly the backend
\* configured for that prefix and to no other.
C10_ForwardedToConfiguredBackend ==
    (Done /\ Admitted /\ Len(req.path) >= 2 /\ req.path[1] = "api"
        /\ req.path[2] \in DOMAIN Documented) =>
        req.backendCalls = <<Documented[req.path[2]]>>

\* The path matches no route of the table, whatever the method (the catch-all
\* 404 handler is not a route).
UnmatchedPath(path) ==
    \A m \in Methods \cup Mutating, i \in 1..(Len(Stack) - 1) : ~LayerMatches(Stack[i], m, path)

\* C11: a dispatched request whose path matches no configured route causes no
\* backend call and no identity-service call, and its response is 404 'Route
\* not found'.
C11_UnmatchedIs404 ==
    (Routed /\ UnmatchedPath(req.path)) =>
        /\ req.backendCalls = <<>> /\ req.validateCalls = 0
        /\ Done => (req.status = 404 /\ req.message = "Route not found" /\ ~req.success)

C11_Witness ==
    /\ Done /\ req.status = 404 /\ req.method = "POST"
    /\ req.path = <<"api", "nowhere">> /\ req.authHeader = <<"Bearer", "tUser">>

\* The request went through a proxy.
Proxied == Routed /\ \E i \in 1..Len(Stack[req.layer].chain) : Stack[req.layer].chain[i] \in Proxies

\* C12: a request whose forwarding failed is answered 503 with the proxy's
\* 'temporarily unavailable' message, and a forwarded request, POST, PUT and
\* DELETE included, is sent to its backend at most once: a failure is not
\* followed by a second attempt.
C12_FailedForwardIs503 ==
    /\ req.fwdFailed =>
           /\ Done /\ req.status = 503 /\ ~req.success
           /\ req.message = Unavailable(Handler(req))
    /\ Proxied => Len(req.backendCalls) <= 1

C12_Witness ==
    /\ Done /\ req.fwdFailed /\ req.status = 503 /\ req.method = "DELETE"
    /\ req.path = <<"api", "products", "7">> /\ req.backendCalls = <<"product">>

\* The request is inside the gateway, not yet answered.
Pending == req.pc \notin {"idle", "done"}

\* C13 (as claimed): every inbound request eventually receives a response,
\* even if a backend or the identity service never answers.
C13_EveryRequestAnswered == Pending ~> Done

\* The request is under the given prefix of /api.
Under(prefix) == Len(req.path) >= 2 /\ req.path[1] = "api" /\ req.path[2] = prefix

\* Requests the documentation lists with 'Auth Required: Yes': the mutating
\* product requests and every cart request.
NeedsToken == (Under("products") /\ req.method \in Mutating) \/ Under("cart")

\* C14 (as claimed): a mutating product request or a cart request reaches its
\* backend only with an authenticated token; otherwise it is answered 401
\* and no backend is called.
C14_MutationNeedsToken ==
    NeedsToken =>
        /\ req.backendCalls # <<>> => req.user # <<>>
        /\ (Done /\ req.verdict = "allow" /\ req.user = <<>>) =>
               (req.status = 401 /\ req.backendCalls = <<>>)

\* The slots the contract of the aggregate names for the request.
ContractSlots ==
    IF Handler(req) = "dashboard"
    THEN {"profile", "recentOrders", "statistics", "notifications"}
    ELSE IF Handler(req) = "search" /\ req.query.type \in {"all", "products"}
    THEN {"products"}
    ELSE {}

\* C20 (as claimed): in the response of an aggregate every slot of its
\* contract is present, with the sub-call's payload or with an explicit
\* degraded marker; none is silently left out.
C20_EverySlotPresent ==
    (Done /\ Routed /\ req.status = 200 /\ Handler(req) \in {"dashboard", "search"}) =>
        ContractSlots \subseteq (req.present \cup req.degraded)

-----------------------------------------------------------------------------
(* Properties of the aggregate handlers, the health of the backends and the
   middlewares *)

\* The request is in an aggregate handler that calls backends.
Aggregating == Routed /\ Handler(req) \in {"dashboard", "search"} /\ req.sub >= 1

\* C21 (as claimed): the sub-calls of an aggregate request are started
\* without waiting for one another: while a sub-call is awaited, every
\* sub-call of the request has been started.
C21_SubCallsConcurrent ==
    req.pc = "dashboardCall" => Len(req.backendCalls) = Len(DashboardCalls)

\* C22 (as claimed): an aggregate request whose sub-calls have returned
\* succeeds (success true) if at least one of them succeeded and fails
\* (success not true, an error status) if all of them failed.
C22_SuccessIffSomeSubCall ==
    (Done /\ Aggregating) =>
        /\ req.success <=> req.present # {}
        /\ req.present = {} => req.status >= 500

\* The request was dispatched to the search route.
SearchRoute == Routed /\ Stack[req.layer].chain[Len(Stack[req.layer].chain)] = "search"

\* C23: a search request without q causes no backend call and is answered
\* 400 'Search query is required'.
C23_SearchWithoutQueryIs400 ==
    (SearchRoute /\ ~req.query.q) =>
        /\ req.backendCalls = <<>> /\ req.sub = 0
        /\ Done => (req.status = 400 /\ req.message = "Search query is required" /\ ~req.success)

C23_Witness ==
    /\ Done /\ SearchRoute /\ ~req.query.q /\ req.status = 400
    /\ req.user # <<>> /\ req.validateCalls = 1

\* C24 (as claimed): a request to a capability whose backend is Unhealthy (it
\* has failed every probe) is answered 503 and no backend is called for it.
C24_UnhealthyNotForwarded ==
    (Proxied /\ req.down) =>
        /\ req.backendCalls = <<>>
        /\ (Done /\ req.message \notin AuthMessages) => req.status = 503

\* C26: a request gets at most one response, and exactly one once it is done;
\* every middleware and handler before the one the request is at has called
\* next() once, and the one that sent an error response has not: a request
\* that authenticate or authorize rejected is done, at that middleware, with
\* no backend called.
C26_OneResponseOrNext ==
    /\ req.responses <= 1
    /\ Done => req.responses = 1
    /\ Routed => req.nexts = req.step - 1
    /\ (req.responses = 1 /\ req.message \in AuthMessages) =>
           /\ Done /\ Handler(req) \in {"authenticate", "requireAdmin"}
           /\ req.backendCalls = <<>> /\ req.sub = 0

C26_Witness ==
    /\ Done /\ req.status = 403 /\ req.message = "Insufficient permissions"
    /\ req.nexts = 1 /\ req.responses = 1 /\ req.path = <<"api", "admin", "orders">>

-----------------------------------------------------------------------------
(* Properties of the product service's cache *)

\* The ttl the cache is configured with for each kind of read: 300 s for
\* pages and searches, 600 s for single products and featured products,
\* 3600 s for brands and categories.
ConfiguredTtl(fn) ==
    IF fn \in {"getProducts", "searchProducts"} THEN 300
    ELSE IF fn \in {"getProductById", "getProductBySku", "getFeaturedProducts"} THEN 600
    ELSE 3600

\* The read served has finished.
Read == rd.pc = "done"

HoldsProducts(key) == key[1] \in {"product", "products", "search", "featured"}

\* C16 (as claimed): once a mutation of a product has completed, no cache
\* entry holds the product as it was before: every entry whose payload
\* contains the product has been invalidated (mutations that no read
\* overlapped).
C16_MutationInvalidates ==
    (wr.pc = "done" /\ wr.error = "" /\ wr.alone) =>
        \A k \in Keys :
            (redis[k] # <<>> /\ HoldsProducts(k)) =>
                \A d \in redis[k][1].payload.products :
                    d.id = wr.id => d = Doc(store, wr.id)

\* C17 (as claimed): in every sequence of reads and mutations, a read
\* returns what the read function returns on the collection directly (reads
\* that no mutation overlapped, after a mutation that no read overlapped).
C17_CacheTransparent ==
    (Read /\ ~rd.overlapped /\ rd.error # "store error" /\ (wr.pc = "done" => wr.alone)) =>
        LET direct == Direct(rd.fn, rd.arg, store)
        IN IF NotFound(rd.fn, direct)
           THEN rd.error = "Product not found"
           ELSE rd.result = <<direct>>

RECURSIVE DelAll(_, _)
DelAll(r, keys) == IF keys = <<>> THEN r ELSE DelAll(del(r, Head(keys)), Tail(keys))

\* The cache after the invalidation of the mutation.
Invalidate(op, id, r) == DelAll(r, InvalidatedKeys(op, id))

CachedKeys(r) == { k \in Keys : r[k] # <<>> }

StockUpdated == wr.pc = "done" /\ wr.op = "updateStock" /\ wr.id \in ProductIds

\* C25 (as claimed): an updateStock with a (positive) quantity greater than
\* the stock throws 'Insufficient stock' and leaves the stored stock as it
\* was; with a quantity not greater than the stock it reduces the stock by
\* the quantity.
C25_InsufficientStockRejected ==
    (StockUpdated /\ wr.quantity >= 1) =>
        IF wr.quantity > wr.found
        THEN wr.error = "Insufficient stock" /\ store[wr.id].stock = wr.found
        ELSE wr.error = "" /\ store[wr.id].stock = wr.found - wr.quantity

\* C29 (as claimed): once a getProductById or getProductBySku and an
\* updateStock of the same product have both completed, the entry under the
\* read's key, if there is one, holds the product as it is stored.
C29_NoStaleEntryAfterRace ==
    (Read /\ StockUpdated /\ wr.error = ""
        /\ rd.fn \in {"getProductById", "getProductBySku"}
        /\ Matching(rd.fn, rd.arg, store) = {wr.id}) =>
        LET entry == redis[cacheKey(rd.fn, rd.arg)]
        IN entry # <<>> => entry[1].payload.products = {Doc(store, wr.id)}

-----------------------------------------------------------------------------
(* Properties of the notification history *)

\* No sendPushNotification call is between its lPush and its return.
PushesCompleted == \A p \in 1..MaxPushers : push[p].pc = "idle"

\* The user's history, as getUserNotifications returns it whole.
History == ParseAll(notifications)

\* The history is in the order pushed, newest first.
NewestFirst == \A i \in 1..Len(History) - 1 : History[i].n > History[i + 1].n

\* C27: after any sequence of completed sendPushNotification calls the list
\* holds at most 100 entries, they are the most recently pushed ones, and
\* they are ordered newest first.
C27_LastHundredNewestFirst ==
    PushesCompleted =>
        /\ Len(History) <= 100
        /\ Len(History) = Min(sent, 100)
        /\ \A i \in 1..Len(History) : History[i].n = sent - i + 1

\* More than 100 notifications were pushed and every call has completed.
C27_Witness == PushesCompleted /\ sent > 100 /\ Len(History) = 100

\* C28: once a markNotificationAsRead call and the sendPushNotification calls
\* served with it have finished, every notification stored before the call or
\* pushed during it is in the list, in the order pushed, and only the read
\* flag of the entries with the id has changed.
C28_MarkKeepsEveryNotification ==
    (mark.pc = "done" /\ PushesCompleted) =>
        /\ {History[i].n : i \in 1..Len(History)} = 1..sent
        /\ NewestFirst
        /\ \A i \in 1..Len(History) : History[i].read <=> History[i].id = mark.id
        /\ \A j \in 1..Len(mark.before) : \E i \in 1..Len(History) :
               History[i] = [mark.before[j] EXCEPT !.read = (mark.before[j].id = mark.id)]

-----------------------------------------------------------------------------
(* Properties of the frontend's AuthContext *)

\* No login, register or token-validation call is in flight or about to be
\* made; logout has no await, so it never is.
Settled ==
    /\ ~effectDue
    /\ \A c \in calls : c.kind \notin {"login", "register", "validateToken"}

\* C30: whenever no login, register, logout or token-validation call is in
\* flight, state.token equals localStorage's token (both absent, or the same
\* value), and a user in the state implies a token in the state.
C30_TokenMatchesLocalStorage ==
    Settled =>
        /\ auth.token = localStorage
        /\ auth.user # <<>> => auth.token # <<>>

=============================================================================
